---- MODULE Spec2Model ----
(***************************************************************************)
(* Model of .github/scripts/ai_reviewer.py: one run of main(), the four    *)
(* host tools, the reasoning call with its JSON recovery, and the report   *)
(* renderer.  Python dicts are functions whose DOMAIN is the set of keys   *)
(* present, so dict.get(k, default) is modelled by Get.  A text (the diff, *)
(* the response of the reasoning service, a summary, a report line) is a   *)
(* sequence of tokens.                                                     *)
(***************************************************************************)
EXTENDS Integers, Sequences, FiniteSets, TLC

VARIABLES pc, metadata, diff, review, comment_body, severity, action,
          raised, exitCode, calls, hostComments, hostLabels, warnings

vars == <<pc, metadata, diff, review, comment_body, severity, action,
          raised, exitCode, calls, hostComments, hostLabels, warnings>>

(* ---------------- bounds ---------------- *)
MaxDiffLen == 1
MaxTextLen == 2
MaxRunIssues == 1
MaxIssues == 3

(* ---------------- generic helpers ---------------- *)
\* dict.get(key, default)
Get(d, k, default) == IF k \in DOMAIN d THEN d[k] ELSE default

\* the empty dict
EmptyDict == [k \in {} |-> ""]

\* all sequences over S of length at most n
SeqsUpTo(S, n) == UNION {[1..m -> S] : m \in 0..n}

Range(s) == {s[i] : i \in DOMAIN s}

\* a status check that takes only 5xx for an error
raise_for_status_5xx(status) == status >= 500 /\ status < 600

\* requests' Response.raise_for_status(): raises HTTPError for 4xx and 5xx
raise_for_status(status) == status >= 400 /\ status < 600

\* decimal rendering of the small integers an f-string formats here
IntToStr(n) ==
    CASE n = 0 -> "0" [] n = 1 -> "1" [] n = 2 -> "2" [] n = 3 -> "3"
      [] n = 4 -> "4" [] n = 5 -> "5" [] n = 6 -> "6" [] n = 7 -> "7"
      [] n = 8 -> "8" [] OTHER -> "9"

(* ---------------- texts ---------------- *)
\* characters of a diff: two kinds of whitespace and one visible character
DiffChars == {" ", "\n", "x"}
\* strip(" "): only the blank is stripped
WhitespaceBlankOnly == {" ", "WS"}
Whitespace == {" ", "\n", "WS"}

RECURSIVE lstrip(_)
lstrip(s) == IF s # <<>> /\ Head(s) \in Whitespace THEN lstrip(Tail(s)) ELSE s

RECURSIVE rstrip(_)
rstrip(s) ==
    IF s # <<>> /\ s[Len(s)] \in Whitespace
    THEN rstrip(SubSeq(s, 1, Len(s) - 1)) ELSE s

\* str.strip()
strip(s) == rstrip(lstrip(s))

\* tokens of a reasoning-service response: the two fence spellings, a run of
\* whitespace, a run of prose, and one complete JSON document
TextTokens == {"FENCE_JSON", "FENCE", "WS", "PROSE", "JSONDOC"}

IsFence(tok) == tok \in {"FENCE_JSON", "FENCE"}

\* re.sub of the fence pattern (three backquotes, optionally followed by json) by ""
strip_fences(raw_text) == SelectSeq(raw_text, LAMBDA tok : ~IsFence(tok))

\* json.loads(clean) succeeds iff clean is exactly one JSON document
json_decodes(clean) == clean = <<"JSONDOC">>

(* ---------------- JSON values ---------------- *)
\* a field that may be absent: the dicts with at most the key k, valued in S
Opt(k, S) == {EmptyDict} \cup {(k :> v) : v \in S}

\* a JSON array or object used where a string is expected: not hashable,
\* so a dict lookup keyed by it raises TypeError
UNHASHABLE == "<list>"

Severities == {"CRITICAL", "MAJOR", "MINOR", "APPROVED"}
Actions == {"APPROVE", "REQUEST_CHANGES", "COMMENT"}
Bands == <<"CRITICAL", "MAJOR", "MINOR">>

\* values a response can carry in the two enum fields
SeverityValues == Severities \cup {"BLOCKER", UNHASHABLE}
ActionValues == Actions \cup {"MERGE", UNHASHABLE}
IssueSeverityValues == {"CRITICAL", "MAJOR", "MINOR", "INFO"}

\* the i-th issue of a response: its file names its position, its category
\* is known, absent or unknown by position, its severity is free or absent
IssueBase(i) ==
    ("file" :> <<"File", IntToStr(i)>>) @@ ("description" :> <<"PROSE">>)
    @@ ("suggestion" :> <<"PROSE">>)
    @@ (IF i % 3 = 1 THEN ("category" :> "SECURITY")
        ELSE IF i % 3 = 2 THEN EmptyDict ELSE ("category" :> "NOVEL"))

IssueLists(n) ==
    UNION {{[i \in 1..m |-> f[i] @@ IssueBase(i)] :
              f \in [1..m -> Opt("severity", IssueSeverityValues)]} : m \in 0..n}

\* the JSON objects a response can hold, with at most n issues
ReviewDicts(n) ==
    {a @@ b @@ c @@ d @@ e :
        a \in Opt("summary", {<<"PROSE">>}),
        b \in Opt("severity", SeverityValues),
        c \in Opt("issues", IssueLists(n)),
        d \in Opt("positive_observations", {<<<<"PROSE">>>>}),
        e \in Opt("recommended_action", ActionValues)}

\* what json.loads returns: a dict, or a JSON value of another type
JsonValues(n) ==
    {[type |-> "dict", value |-> d] : d \in ReviewDicts(n)}
    \cup {[type |-> "list", value |-> EmptyDict]}

(* ---------------- call_claude_agent: recovery of the response ---------------- *)
\* the fallback of the except branch
degraded(raw_text) ==
    [type |-> "dict",
     value |-> [summary |-> raw_text, severity |-> "COMMENT", issues |-> <<>>,
                positive_observations |-> <<>>, recommended_action |-> "COMMENT"]]

\* what line 172 prints
UNPARSED == "Could not parse Claude response as JSON"

\* lines 167-175: doc is the value of the JSON document token of raw_text;
\* the result is the review returned and what is printed
parse_response(raw_text, doc) ==
    LET clean == strip(strip_fences(raw_text))
    IN  IF json_decodes(clean)
        THEN [review |-> doc, printed |-> {}]
        ELSE [review |-> degraded(raw_text), printed |-> {UNPARSED}]

(* ---------------- format_review_comment ---------------- *)
severity_emoji ==
    ("CRITICAL" :> "red_circle") @@ ("MAJOR" :> "orange_circle")
    @@ ("MINOR" :> "yellow_circle") @@ ("APPROVED" :> "check_mark")

category_emoji ==
    ("SECURITY" :> "lock") @@ ("BUG" :> "bug") @@ ("PERFORMANCE" :> "zap")
    @@ ("DESIGN" :> "construction") @@ ("STYLE" :> "pencil")
    @@ ("SPRING_ANTIPATTERN" :> "leaf")

action_map ==
    ("APPROVE" :> "Recommendation: APPROVE")
    @@ ("REQUEST_CHANGES" :> "Recommendation: REQUEST CHANGES")
    @@ ("COMMENT" :> "Recommendation: COMMENT")

\* lines 220-227: the five lines of each issue of a band, numbered from idx
RECURSIVE issue_lines(_, _)
issue_lines(sev_issues, idx) ==
    IF sev_issues = <<>> THEN <<>>
    ELSE LET issue == Head(sev_issues)
             cat   == Get(issue, "category", "GENERAL")
             emoji == Get(category_emoji, cat, "speech")
         IN  << <<"issue", IntToStr(idx), emoji, cat>> \o Get(issue, "file", <<"unknown">>),
                <<"Where:">> \o Get(issue, "line_hint", <<"See file">>),
                <<"Problem:">> \o Get(issue, "description", <<>>),
                <<"Fix:">> \o Get(issue, "suggestion", <<>>),
                <<>> >>
             \o issue_lines(Tail(sev_issues), idx + 1)

\* the band selection defaulting a missing severity to MINOR
issues_of_band_default_minor(issues, sev) ==
    SelectSeq(issues, LAMBDA i : Get(i, "severity", "MINOR") = sev)

\* line 217: the issues of one band
issues_of_band(issues, sev) ==
    SelectSeq(issues, LAMBDA i : Get(i, "severity", "None") = sev)

\* lines 216-227: the bands from the b-th on
RECURSIVE band_lines(_, _)
band_lines(issues, b) ==
    IF b > Len(Bands) THEN <<>>
    ELSE LET sev == Bands[b]
             sev_issues == issues_of_band(issues, sev)
         IN  (IF sev_issues # <<>>
              THEN << <<"band", Get(severity_emoji, sev, ""), sev>> >>
                   \o issue_lines(sev_issues, 1)
              ELSE <<>>)
             \o band_lines(issues, b + 1)

\* the header normalising an unknown severity to MINOR
header_emoji_normalising(r) ==
    Get(severity_emoji, Get(r, "severity", "MINOR"), severity_emoji["MINOR"])

\* line 200: the indicator of the header, for a dict r
header_emoji(r) == Get(severity_emoji, Get(r, "severity", "MINOR"), "speech")

\* lines 236-243: the sentence of the final verdict, for a dict r
verdict_sentence(r) ==
    Get(action_map, Get(r, "recommended_action", "COMMENT"), "Review complete.")

\* line 200 raises AttributeError when review is no dict and TypeError when the
\* severity is unhashable; line 243 raises TypeError for an unhashable action
format_raises(rv) ==
    \/ rv.type # "dict"
    \/ Get(rv.value, "severity", "MINOR") = UNHASHABLE
    \/ Get(rv.value, "recommended_action", "COMMENT") = UNHASHABLE

\* lines 200-248, for a review on which nothing raises: the lines of the comment
format_review_comment(rv, md) ==
    LET r == rv.value
        overall_emoji == header_emoji(r)
        issues == Get(r, "issues", <<>>)
        positives == Get(r, "positive_observations", <<>>)
    IN  << <<"header", overall_emoji>>,
           <<"Reviewed by">> \o md["title"] \o <<"Author:">> \o md["author"],
           <<>>,
           <<"Summary">>,
           Get(r, "summary", <<"No summary provided.">>),
           <<>> >>
        \o (IF issues # <<>>
            THEN << <<"Issues Found", IntToStr(Len(issues))>>, <<>> >>
                 \o band_lines(issues, 1)
            ELSE <<>>)
        \o (IF positives # <<>>
            THEN << <<"Well Done">> >>
                 \o [k \in 1..Len(positives) |-> <<"-">> \o positives[k]]
                 \o << <<>> >>
            ELSE <<>>)
        \o << <<"Final Verdict">>,
              <<"verdict", verdict_sentence(r)>>,
              <<>>,
              <<"---">>,
              <<"disclaimer">> >>

(* ---------------- the review host and the reasoning service ---------------- *)
\* status codes the collaborators may answer with; 0 stands for no answer
\* (requests raises ConnectionError)
GetStatuses == {200, 404, 0}
CommentStatuses == {201, 403, 422}
LabelStatuses == {200, 404, 422}
AnthropicStatuses == {200, 529}

\* a caller that forgets raise_for_status()
call_fails_unchecked(status) == status = 0

\* a call fails when requests raises or raise_for_status() does
call_fails(status) == status = 0 \/ raise_for_status(status)

\* the pull-request documents the host may return to get_pr_metadata
PrDatas ==
    { ("title" :> <<"T">>) @@ ("body" :> <<"B">>)
        @@ ("user" :> ("login" :> <<"dev">>)) @@ ("base" :> ("ref" :> <<"develop">>)),
      EmptyDict }

\* lines 56-62
pr_metadata(data) ==
    [title  |-> Get(data, "title", <<>>),
     body   |-> Get(data, "body", <<>>),
     author |-> Get(Get(data, "user", EmptyDict), "login", <<"unknown">>),
     base   |-> Get(Get(data, "base", EmptyDict), "ref", <<"main">>)]

NoReview == [type |-> "none", value |-> EmptyDict]

Call(op, arg, status) == [op |-> op, arg |-> arg, status |-> status]

(* ---------------- main ---------------- *)
Init ==
    /\ pc = "get_pr_metadata"
    /\ metadata = EmptyDict
    /\ diff = <<>>
    /\ review = NoReview
    /\ comment_body = <<>>
    /\ severity = ""
    /\ action = ""
    /\ raised = ""
    /\ exitCode = 0
    /\ calls = <<>>
    /\ hostComments = <<>>
    /\ hostLabels = {}
    /\ warnings = {}

\* an uncaught exception ends the interpreter with exit status 1
Abort(exc) ==
    /\ pc' = "exited"
    /\ raised' = exc
    /\ exitCode' = 1

\* sys.exit(code), and the return from main()
Exit(code) ==
    /\ pc' = "exited"
    /\ exitCode' = code
    /\ UNCHANGED raised

\* line 259, get_pr_metadata (lines 51-62)
GetPrMetadata ==
    /\ pc = "get_pr_metadata"
    /\ \E status \in GetStatuses :
         /\ calls' = Append(calls, Call("get_pr_metadata", "", status))
         /\ IF call_fails(status)
            THEN Abort("HTTPError") /\ UNCHANGED metadata
            ELSE /\ \E data \in PrDatas : metadata' = pr_metadata(data)
                 /\ pc' = "get_pr_diff"
                 /\ UNCHANGED <<raised, exitCode>>
    /\ UNCHANGED <<diff, review, comment_body, severity, action,
                   hostComments, hostLabels, warnings>>

\* line 263, get_pr_diff (lines 39-45)
GetPrDiff ==
    /\ pc = "get_pr_diff"
    /\ \E status \in GetStatuses :
         /\ calls' = Append(calls, Call("get_pr_diff", "", status))
         /\ IF call_fails(status)
            THEN Abort("HTTPError") /\ UNCHANGED diff
            ELSE /\ \E text \in SeqsUpTo(DiffChars, MaxDiffLen) : diff' = text
                 /\ pc' = "check_diff"
                 /\ UNCHANGED <<raised, exitCode>>
    /\ UNCHANGED <<metadata, review, comment_body, severity, action,
                   hostComments, hostLabels, warnings>>

\* lines 266-268
CheckDiff ==
    /\ pc = "check_diff"
    /\ IF strip(diff) = <<>>
       THEN Exit(0)
       ELSE pc' = "call_claude_agent" /\ UNCHANGED <<raised, exitCode>>
    /\ UNCHANGED <<metadata, diff, review, comment_body, severity, action,
                   calls, hostComments, hostLabels, warnings>>

\* line 271, call_claude_agent (lines 160-175); has_text is whether the body of
\* the answer holds content[0].text (line 163 raises KeyError otherwise)
CallClaudeAgent ==
    /\ pc = "call_claude_agent"
    /\ \E status \in AnthropicStatuses, has_text \in BOOLEAN :
         /\ calls' = Append(calls, Call("call_claude_agent", "", status))
         /\ IF call_fails(status)
            THEN Abort("HTTPError") /\ UNCHANGED <<review, warnings>>
            ELSE IF ~has_text
            THEN Abort("KeyError") /\ UNCHANGED <<review, warnings>>
            ELSE /\ \E raw_text \in SeqsUpTo(TextTokens, MaxTextLen) :
                    \E doc \in (IF "JSONDOC" \in Range(raw_text)
                                THEN JsonValues(MaxRunIssues) ELSE {NoReview}) :
                       LET r == parse_response(raw_text, doc)
                       IN  /\ review' = r.review
                           /\ warnings' = warnings \cup r.printed
                 /\ pc' = "format_review_comment"
                 /\ UNCHANGED <<raised, exitCode>>
    /\ UNCHANGED <<metadata, diff, comment_body, severity, action,
                   hostComments, hostLabels>>

\* line 274
FormatReviewComment ==
    /\ pc = "format_review_comment"
    /\ IF format_raises(review)
       THEN /\ Abort(IF review.type # "dict" THEN "AttributeError" ELSE "TypeError")
            /\ UNCHANGED comment_body
       ELSE /\ comment_body' = format_review_comment(review, metadata)
            /\ pc' = "post_pr_comment"
            /\ UNCHANGED <<raised, exitCode>>
    /\ UNCHANGED <<metadata, diff, review, severity, action,
                   calls, hostComments, hostLabels, warnings>>

\* line 275, post_pr_comment (lines 68-74)
PostPrComment ==
    /\ pc = "post_pr_comment"
    /\ \E status \in CommentStatuses :
         /\ calls' = Append(calls, Call("post_pr_comment", "", status))
         /\ IF call_fails(status)
            THEN Abort("HTTPError") /\ UNCHANGED hostComments
            ELSE /\ hostComments' = Append(hostComments, comment_body)
                 /\ pc' = "decide"
                 /\ UNCHANGED <<raised, exitCode>>
    /\ UNCHANGED <<metadata, diff, review, comment_body, severity, action,
                   hostLabels, warnings>>

\* the decision table with its two rules in the other order
label_for_approve_first(sev, act) ==
    IF act = "APPROVE" THEN "ai-approved"
    ELSE IF sev = "CRITICAL" \/ act = "REQUEST_CHANGES" THEN "needs-revision"
    ELSE ""

\* lines 281-286: the label main asks for, "" when it asks for none
label_for(sev, act) ==
    IF sev = "CRITICAL" \/ act = "REQUEST_CHANGES" THEN "needs-revision"
    ELSE IF act = "APPROVE" THEN "ai-approved"
    ELSE ""

\* add_label without the 422 branch
add_label_strict(label) ==
    \E status \in LabelStatuses :
       /\ calls' = Append(calls, Call("add_label", label, status))
       /\ IF call_fails(status)
          THEN Abort("HTTPError") /\ UNCHANGED <<hostLabels, warnings>>
          ELSE /\ hostLabels' = hostLabels \cup {label}
               /\ pc' = "finish"
               /\ UNCHANGED <<warnings, raised, exitCode>>

\* add_label taking every refusal for a warning
add_label_lenient(label) ==
    \E status \in LabelStatuses :
       /\ calls' = Append(calls, Call("add_label", label, status))
       /\ IF call_fails(status)
          THEN /\ warnings' = warnings \cup {label}
               /\ pc' = "finish"
               /\ UNCHANGED <<hostLabels, raised, exitCode>>
          ELSE /\ hostLabels' = hostLabels \cup {label}
               /\ pc' = "finish"
               /\ UNCHANGED <<warnings, raised, exitCode>>

\* add_label (lines 80-89) as called from lines 282 and 285
add_label(label) ==
    \E status \in LabelStatuses :
       /\ calls' = Append(calls, Call("add_label", label, status))
       /\ IF status = 422
          THEN /\ warnings' = warnings \cup {label}
               /\ pc' = "finish"
               /\ UNCHANGED <<hostLabels, raised, exitCode>>
          ELSE IF call_fails(status)
          THEN Abort("HTTPError") /\ UNCHANGED <<hostLabels, warnings>>
          ELSE /\ hostLabels' = hostLabels \cup {label}
               /\ pc' = "finish"
               /\ UNCHANGED <<warnings, raised, exitCode>>

\* lines 278-286
DecideAndLabel ==
    /\ pc = "decide"
    /\ severity' = Get(review.value, "severity", "MINOR")
    /\ action' = Get(review.value, "recommended_action", "COMMENT")
    /\ IF label_for(severity', action') # ""
       THEN add_label(label_for(severity', action'))
       ELSE /\ pc' = "finish"
            /\ UNCHANGED <<calls, hostLabels, warnings, raised, exitCode>>
    /\ UNCHANGED <<metadata, diff, review, comment_body, hostComments>>

\* the exit status failing on MAJOR as well
exit_code_for_major(sev) == IF sev \in {"CRITICAL", "MAJOR"} THEN 1 ELSE 0

\* lines 291-292, and the return from main() otherwise
exit_code_for(sev) == IF sev = "CRITICAL" THEN 1 ELSE 0

\* lines 288-292
Finish ==
    /\ pc = "finish"
    /\ Exit(exit_code_for(severity))
    /\ UNCHANGED <<metadata, diff, review, comment_body, severity, action,
                   calls, hostComments, hostLabels, warnings>>

Next ==
    \/ GetPrMetadata
    \/ GetPrDiff
    \/ CheckDiff
    \/ CallClaudeAgent
    \/ FormatReviewComment
    \/ PostPrComment
    \/ DecideAndLabel
    \/ Finish

Spec == Init /\ [][Next]_vars

(* ---------------- the renderer on its own ---------------- *)
\* the states in which main calls format_review_comment (line 274), for the
\* dicts with at most MaxIssues issues
InitRender ==
    /\ pc = "format_review_comment"
    /\ metadata = pr_metadata(EmptyDict)
    /\ diff = <<"x">>
    /\ review \in {[type |-> "dict", value |-> d] : d \in ReviewDicts(MaxIssues)}
    /\ comment_body = <<>>
    /\ severity = ""
    /\ action = ""
    /\ raised = ""
    /\ exitCode = 0
    /\ calls = <<Call("get_pr_metadata", "", 200), Call("get_pr_diff", "", 200),
                 Call("call_claude_agent", "", 200)>>
    /\ hostComments = <<>>
    /\ hostLabels = {}
    /\ warnings = {}

NextRender == FormatReviewComment

SpecRender == InitRender /\ [][NextRender]_vars

(* ======================= properties ======================= *)
\* the calls of one operation in the log, in order
CallsOf(op) == SelectSeq(calls, LAMBDA c : c.op = op)

\* a call was answered without an error
Succeeded(c) == c.status \in {200, 201}

\* main has read severity and recommended_action (lines 278-279)
Decided == severity # ""

\* the labels main asked the host for, in order
RequestedLabels == [k \in 1..Len(CallsOf("add_label")) |-> CallsOf("add_label")[k].arg]

\* the run has ended
Exited == pc = "exited"

\* C1: for every assessment that reaches the action step the label asked for
\* is decided by first match: CRITICAL severity or REQUEST_CHANGES asks for
\* needs-revision, otherwise APPROVE asks for ai-approved, otherwise no label
\* is asked for at all.
C1_LabelByFirstMatch ==
    Decided =>
        /\ (severity = "CRITICAL" \/ action = "REQUEST_CHANGES")
              => RequestedLabels = <<"needs-revision">>
        /\ (severity # "CRITICAL" /\ action # "REQUEST_CHANGES" /\ action = "APPROVE")
              => RequestedLabels = <<"ai-approved">>
        /\ (severity # "CRITICAL" /\ action \notin {"REQUEST_CHANGES", "APPROVE"})
              => RequestedLabels = <<>>

C1_Witness ==
    /\ Decided
    /\ severity = "CRITICAL"
    /\ action = "APPROVE"
    /\ RequestedLabels = <<"needs-revision">>

\* the severity of the assessment the reasoning step returned
AssessedSeverity == Get(review.value, "severity", "MINOR")

\* the run holds an assessment, parsed or degraded
HasAssessment == review.type = "dict"

\* the last call of the run was refused: the comment with any error, the label
\* with an error other than 422
PublishingFailed ==
    /\ calls # <<>>
    /\ LET c == calls[Len(calls)]
       IN  \/ c.op = "post_pr_comment" /\ ~Succeeded(c)
           \/ c.op = "add_label" /\ ~Succeeded(c) /\ c.status # 422

\* C2 as stated: once the report of an assessment is rendered, the run ends
\* with the failure signal if and only if the severity is CRITICAL, whatever
\* happens while publishing the comment or applying the label.
C2_ExitIffCritical ==
    (Exited /\ HasAssessment /\ comment_body # <<>>)
        => (exitCode = 1 <=> AssessedSeverity = "CRITICAL")

\* C2 amended: a run that holds an assessment ends with the failure signal if
\* and only if the severity is CRITICAL or the run was cut short by an error:
\* rendering raised, or the host refused the comment, or refused the label
\* with an error other than 422.
C2_ExitIffCriticalOrCutShort ==
    (Exited /\ HasAssessment)
        => /\ exitCode \in {0, 1}
           /\ exitCode = 1 <=> \/ AssessedSeverity = "CRITICAL"
                               \/ comment_body = <<>>
                               \/ PublishingFailed

C2_Witness ==
    /\ Exited
    /\ HasAssessment
    /\ AssessedSeverity = "MAJOR"
    /\ exitCode = 1
    /\ calls[Len(calls)].op = "post_pr_comment"

\* C3 as stated: a response text obtained with a successful transport status
\* never aborts the run in the steps that use it: the run is not ended by an
\* exception raised on the returned value.
C3_MalformedNeverAborts ==
    ~(Exited /\ review # NoReview /\ raised \in {"AttributeError", "TypeError"})

\* a call of one of the three fatal kinds failed
FatalCalls == {"get_pr_metadata", "get_pr_diff", "call_claude_agent"}

FatalFailure == \E k \in 1..Len(calls) : calls[k].op \in FatalCalls /\ ~Succeeded(calls[k])

\* C4: when the host fails the metadata read or the diff read, or the
\* reasoning service answers with a non-success status, the run is aborted
\* there (the failed call is the last one, the run has ended with the failure
\* signal) and no comment is posted and no label applied or asked for, then
\* and in every later state.
C4_FatalAbortsClean ==
    FatalFailure =>
        /\ Exited
        /\ exitCode = 1
        /\ ~Succeeded(calls[Len(calls)])
        /\ \A k \in 1..(Len(calls) - 1) : Succeeded(calls[k])
        /\ hostComments = <<>>
        /\ hostLabels = {}
        /\ CallsOf("post_pr_comment") = <<>>
        /\ CallsOf("add_label") = <<>>

C4_Witness ==
    /\ FatalFailure
    /\ Exited
    /\ calls[Len(calls)].op = "call_claude_agent"
    /\ calls[Len(calls)].status = 529
    /\ hostComments = <<>>

\* the diff read succeeded
DiffReturned == \E k \in 1..Len(calls) : calls[k].op = "get_pr_diff" /\ Succeeded(calls[k])

\* every character of the diff is whitespace (the empty diff included)
BlankDiff == \A k \in 1..Len(diff) : diff[k] \in {" ", "\n"}

\* C5: when the diff returned is empty or whitespace only, the run can only
\* end with the success signal, and the reasoning service is never invoked,
\* no comment is posted and no label is applied.
C5_BlankDiffShortCircuits ==
    (DiffReturned /\ BlankDiff) =>
        /\ pc \in {"check_diff", "exited"}
        /\ Exited => (exitCode = 0 /\ raised = "")
        /\ CallsOf("call_claude_agent") = <<>>
        /\ CallsOf("post_pr_comment") = <<>>
        /\ CallsOf("add_label") = <<>>
        /\ hostComments = <<>>
        /\ hostLabels = {}

C5_Witness ==
    /\ DiffReturned
    /\ diff = <<"\n">>
    /\ Exited
    /\ exitCode = 0

\* the host answered the label request with 422
LabelRejected == \E k \in 1..Len(calls) : calls[k].op = "add_label" /\ calls[k].status = 422

\* C6: when the host rejects the label as unknown (422) the run goes on, the
\* rejection is only printed, and the run ends with the signal the severity
\* alone decides: failure if CRITICAL, success otherwise.
C6_RejectionKeepsDisposition ==
    LabelRejected =>
        /\ raised = ""
        /\ pc \in {"finish", "exited"}
        /\ RequestedLabels[1] \in warnings
        /\ Exited => exitCode = (IF AssessedSeverity = "CRITICAL" THEN 1 ELSE 0)

C6_Witness ==
    /\ LabelRejected
    /\ Exited
    /\ AssessedSeverity = "CRITICAL"
    /\ exitCode = 1
    /\ hostLabels = {}

\* the assessment was parsed from the response, not degraded
Parsed == HasAssessment /\ UNPARSED \notin warnings

\* the report of the assessment has been rendered
Rendered == comment_body # <<>>

\* the header line and the verdict line of the rendered report
HeaderLine == comment_body[1]
VerdictLine == comment_body[Len(comment_body) - 3]

\* the enum value a field resolves to when missing or out-of-enum values are
\* replaced by the default
Normalized(d, k, enum, default) ==
    IF k \in DOMAIN d /\ d[k] \in enum THEN d[k] ELSE default

NormalSeverity == Normalized(review.value, "severity", Severities, "MINOR")
NormalAction == Normalized(review.value, "recommended_action", Actions, "COMMENT")

\* the decision table of the action plan: the labels of a pair, first match
PlannedLabels(sev, act) ==
    CASE sev = "CRITICAL" \/ act = "REQUEST_CHANGES" -> <<"needs-revision">>
      [] sev # "CRITICAL" /\ act = "APPROVE" -> <<"ai-approved">>
      [] OTHER -> <<>>

\* the run ended by sys.exit or by returning from main, not by an exception
EndedNormally == Exited /\ raised = ""

\* C7 as stated: for a parsed assessment a severity or action that is missing
\* or outside its enumeration is replaced by MINOR or COMMENT, so the header,
\* the verdict sentence, the label decision and the exit disposition are those
\* of the default value.
C7_OutOfEnumAsDefault ==
    (Parsed /\ Rendered) =>
        /\ HeaderLine = <<"header", severity_emoji[NormalSeverity]>>
        /\ VerdictLine = <<"verdict", action_map[NormalAction]>>
        /\ Decided => RequestedLabels = PlannedLabels(NormalSeverity, NormalAction)
        /\ EndedNormally => exitCode = (IF NormalSeverity = "CRITICAL" THEN 1 ELSE 0)

\* C7 amended: for a parsed assessment whose report is rendered, a missing
\* severity or action is replaced by MINOR or COMMENT; a value present but
\* outside its enumeration is kept: the label decision and the exit
\* disposition are those of the default value, but the header carries the
\* generic indicator, not the one of MINOR, and the verdict is the generic
\* sentence, not the one of COMMENT.
C7_MissingDefaultsOutOfEnumKept ==
    (Parsed /\ Rendered) =>
        LET r == review.value
        IN  /\ HeaderLine[2] =
                 (IF "severity" \notin DOMAIN r THEN severity_emoji["MINOR"]
                  ELSE IF r["severity"] \in Severities THEN severity_emoji[r["severity"]]
                  ELSE "speech")
            /\ VerdictLine[2] =
                 (IF "recommended_action" \notin DOMAIN r THEN action_map["COMMENT"]
                  ELSE IF r["recommended_action"] \in Actions
                       THEN action_map[r["recommended_action"]]
                  ELSE "Review complete.")
            /\ "speech" \notin Range(severity_emoji)
            /\ "Review complete." \notin Range(action_map)
            /\ Decided => RequestedLabels = PlannedLabels(NormalSeverity, NormalAction)
            /\ EndedNormally => exitCode = (IF NormalSeverity = "CRITICAL" THEN 1 ELSE 0)

C7_Witness ==
    /\ Parsed
    /\ EndedNormally
    /\ Decided
    /\ Get(review.value, "severity", "") = "BLOCKER"
    /\ Get(review.value, "recommended_action", "") = "MERGE"
    /\ HeaderLine = <<"header", "speech">>
    /\ RequestedLabels = <<>>
    /\ exitCode = 0

\* C8 as stated: no run ends with the success signal while the label its plan
\* requires has not been applied on the host.
C8_NoSuccessWithoutLabel ==
    (Exited /\ exitCode = 0 /\ Decided /\ PlannedLabels(severity, action) # <<>>)
        => PlannedLabels(severity, action)[1] \in hostLabels

\* C8 amended: a run that ends with the success signal while the label its
\* plan requires has not been applied is a run in which the host answered the
\* label request with 422; every other run that misses the label ends with
\* the failure signal.
C8_SuccessWithoutLabelOnlyOn422 ==
    (Exited /\ Decided /\ PlannedLabels(severity, action) # <<>>
       /\ PlannedLabels(severity, action)[1] \notin hostLabels)
        => (exitCode = 1 \/ LabelRejected)

C8_Witness ==
    /\ Exited
    /\ Decided
    /\ PlannedLabels(severity, action) = <<"ai-approved">>
    /\ hostLabels = {}
    /\ calls[Len(calls)].status = 404
    /\ exitCode = 1

\* the pipeline's external calls, in order
Pipeline == <<"get_pr_metadata", "get_pr_diff", "call_claude_agent",
              "post_pr_comment", "add_label">>

\* C10 as stated, its last part: the run sets its exit disposition only after
\* the label step.
C10_ExitOnlyAfterLabelStep == EndedNormally => Decided

\* C10 amended: the external calls happen in the pipeline order, each at most
\* once and each only after the one before it succeeded; the reasoning service
\* is invoked only for a non-blank diff; a comment is on the host only after
\* its call succeeded; and the run sets its exit disposition after the label
\* step, except that a blank diff ends it with the success signal right after
\* the diff read (an exception ends it where it is raised).
C10_PipelineOrder ==
    /\ Len(calls) <= Len(Pipeline)
    /\ \A k \in 1..Len(calls) : calls[k].op = Pipeline[k]
    /\ \A k \in 1..(Len(calls) - 1) : Succeeded(calls[k])
    /\ Len(calls) >= 3 => ~BlankDiff
    /\ Len(hostComments) <= 1
    /\ hostComments # <<>> => (Len(calls) >= 4 /\ Succeeded(calls[4]))
    /\ hostLabels # {} => (Len(calls) = 5 /\ Succeeded(calls[5]) /\ hostLabels = {calls[5].arg})
    /\ Decided => Len(hostComments) = 1
    /\ EndedNormally =>
          \/ Decided
          \/ BlankDiff /\ Len(calls) = 2 /\ Succeeded(calls[2]) /\ exitCode = 0

C10_Witness ==
    /\ EndedNormally
    /\ Len(calls) = 5
    /\ hostLabels = {"ai-approved"}
    /\ Len(hostComments) = 1
    /\ exitCode = 0

(* ---------------- the issues section (under SpecRender) ---------------- *)
\* the band headers and issue titles of the rendered report, in order
Marks == SelectSeq(comment_body, LAMBDA l : l # <<>> /\ l[1] \in {"band", "issue"})

IssuesOf == Get(review.value, "issues", <<>>)

\* the issues whose own severity is sev, in their original order
InBand(sev) == SelectSeq(IssuesOf, LAMBDA i : "severity" \in DOMAIN i /\ i["severity"] = sev)

FilesOf(issues) == [k \in 1..Len(issues) |-> issues[k]["file"]]

\* the file an issue title names
TitleFile(l) == SubSeq(l, 5, Len(l))

\* the last band header before the k-th mark, 0 if none
HeaderBefore(k) ==
    LET hs == {j \in 1..(k - 1) : Marks[j][1] = "band"}
    IN  IF hs = {} THEN 0 ELSE CHOOSE j \in hs : \A i \in hs : i <= j

\* C9: for an assessment with a non-empty issue sequence the issues section
\* lists exactly the issues whose own severity is CRITICAL, MAJOR or MINOR, in
\* the bands CRITICAL, MAJOR, MINOR in that order; inside a band the issues
\* keep their original order and are numbered from 1; a band without issue
\* has no header.
C9_IssuesGrouped ==
    (Rendered /\ IssuesOf # <<>>) =>
        LET titles  == SelectSeq(Marks, LAMBDA l : l[1] = "issue")
            headers == SelectSeq(Marks, LAMBDA l : l[1] = "band")
        IN  /\ [k \in 1..Len(titles) |-> TitleFile(titles[k])]
                 = FilesOf(InBand("CRITICAL")) \o FilesOf(InBand("MAJOR"))
                   \o FilesOf(InBand("MINOR"))
            /\ [k \in 1..Len(headers) |-> headers[k][3]]
                 = SelectSeq(<<"CRITICAL", "MAJOR", "MINOR">>, LAMBDA b : InBand(b) # <<>>)
            /\ \A k \in 1..Len(Marks) :
                  Marks[k][1] = "issue" =>
                     LET h == HeaderBefore(k)
                     IN  /\ h > 0
                         /\ Marks[k][2] = IntToStr(k - h)
                         /\ \E i \in 1..Len(IssuesOf) :
                               /\ IssuesOf[i]["file"] = TitleFile(Marks[k])
                               /\ "severity" \in DOMAIN IssuesOf[i]
                               /\ IssuesOf[i]["severity"] = Marks[h][3]

C9_Witness ==
    /\ Rendered
    /\ Len(IssuesOf) = 3
    /\ Get(IssuesOf[1], "severity", "") = "MINOR"
    /\ Get(IssuesOf[2], "severity", "") = "INFO"
    /\ Get(IssuesOf[3], "severity", "") = "MINOR"
    /\ Len(Marks) = 3
    /\ Marks[3][2] = "2"

====
